---------------------------- MODULE Spec2Model ----------------------------
(***************************************************************************)
(* A model of score.sa.orm: the metaclass BaseMeta that resolves the       *)
(* inheritance configuration of every declared class (base.py), the view   *)
(* and trigger statements generated for a class (views.py, triggers.py)    *)
(* and the build pass ConfiguredSaOrmModule.create (_init.py).             *)
(*                                                                         *)
(* Classes are numbered in the order of their creation; the classes made   *)
(* by create_base() come first.  Python strings that the code takes apart  *)
(* (class names, table names, type names) are sequences of one-character   *)
(* strings; dictionaries are functions whose DOMAIN is the set of keys.    *)
(***************************************************************************)
EXTENDS Integers, Sequences, FiniteSets, TLC

VARIABLES
    classes,    \* every class object created so far, create_base() ones first
    tables,     \* Base.metadata.tables of every base: table name -> columns
    last,       \* outcome of the most recent class statement
    views,      \* the database's views: view name -> select
    triggers,   \* the database's triggers: trigger name -> definition
    log,        \* statements executed by the most recent create()
    built,      \* outcome of the most recent create()
    dbtables,   \* the database's tables: the names that create_all() created
    rows,       \* the database's rows: table name -> ids
    cascade,    \* the DELETE statement in progress and the deletes it has queued
    call,       \* the most recent call of a function of the module
    bind,       \* Base.metadata.bind of every base class
    ctx_sessions,   \* the configured module's sessions by context
    heap,       \* the context objects that are alive; objects made so far
    returned    \* what get_session has returned for each context, in order

modvars == <<bind, ctx_sessions, heap, returned>>
vars == <<classes, tables, last, views, triggers, log, built,
          dbtables, rows, cascade, call, modvars>>

-----------------------------------------------------------------------------
(* Bounds of the model.                                                    *)

NumBases == 2
MaxNodes == 3
MaxResolveNodes == 3
MaxBasesPerClass == 3

-----------------------------------------------------------------------------
(* Python values.                                                          *)

None == "<None>"
NoParent == 0
EmptyDict == <<>>

Has(d, k) == k \in DOMAIN d
Put(d, k, v) == [x \in (DOMAIN d) \cup {k} |-> IF x = k THEN v ELSE d[x]]
Get(d, k, default) == IF Has(d, k) THEN d[k] ELSE default
Range(s) == {s[i] : i \in DOMAIN s}

UpperSeq == <<"A","B","C","D","E","F","G","H","I","J","K","L","M",
              "N","O","P","Q","R","S","T","U","V","W","X","Y","Z">>
LowerSeq == <<"a","b","c","d","e","f","g","h","i","j","k","l","m",
              "n","o","p","q","r","s","t","u","v","w","x","y","z">>
DigitSeq == <<"0","1","2","3","4","5","6","7","8","9">>
UpperChars == Range(UpperSeq)
LowerChars == Range(LowerSeq)
DigitChars == Range(DigitSeq)
IsUpper(c) == c \in UpperChars
IsLower(c) == c \in LowerChars
IsDigit(c) == c \in DigitChars
ToLower(c) == IF IsUpper(c) THEN LowerSeq[CHOOSE i \in DOMAIN UpperSeq : UpperSeq[i] = c]
              ELSE c
ToUpper(c) == IF IsLower(c) THEN UpperSeq[CHOOSE i \in DOMAIN LowerSeq : LowerSeq[i] = c]
              ELSE c
Lower(s) == [i \in DOMAIN s |-> ToLower(s[i])]

-----------------------------------------------------------------------------
(* base.py: the naming codec.                                              *)

\* End of the greedy run [a-z]+ that starts at position i of s.
RECURSIVE LowerRunEnd(_, _)
LowerRunEnd(s, i) ==
    IF i + 1 <= Len(s) /\ IsLower(s[i + 1]) THEN LowerRunEnd(s, i + 1) ELSE i

\* _first_cap_re.sub(r'\1_\2', s) with _first_cap_re = '(.)([A-Z][a-z]+)',
\* scanning from position i.
RECURSIVE FirstCapSub(_, _)
FirstCapSub(s, i) ==
    IF i > Len(s) THEN <<>>
    ELSE IF i + 2 <= Len(s) /\ IsUpper(s[i + 1]) /\ IsLower(s[i + 2])
         THEN LET e == LowerRunEnd(s, i + 2)
              IN  <<s[i], "_">> \o SubSeq(s, i + 1, e) \o FirstCapSub(s, e + 1)
         ELSE <<s[i]>> \o FirstCapSub(s, i + 1)

\* _all_cap_re.sub(r'\1_\2', s) with _all_cap_re = '([a-z0-9])([A-Z])'.
RECURSIVE AllCapSub(_, _)
AllCapSub(s, i) ==
    IF i > Len(s) THEN <<>>
    ELSE IF i + 1 <= Len(s) /\ (IsLower(s[i]) \/ IsDigit(s[i])) /\ IsUpper(s[i + 1])
         THEN <<s[i], "_", s[i + 1]>> \o AllCapSub(s, i + 2)
         ELSE <<s[i]>> \o AllCapSub(s, i + 1)

cls2tbl(name) == <<"_">> \o Lower(AllCapSub(FirstCapSub(name, 1), 1))

\* str.split('_') of s, scanning from position i with the current part acc.
RECURSIVE SplitUnderscore(_, _, _)
SplitUnderscore(s, i, acc) ==
    IF i > Len(s) THEN <<acc>>
    ELSE IF s[i] = "_" THEN <<acc>> \o SplitUnderscore(s, i + 1, <<>>)
         ELSE SplitUnderscore(s, i + 1, Append(acc, s[i]))

\* str.capitalize(): first character upper case, the rest lower case.
Capitalize(s) == [i \in DOMAIN s |-> IF i = 1 THEN ToUpper(s[i]) ELSE ToLower(s[i])]

RECURSIVE Concat(_)
Concat(parts) == IF parts = <<>> THEN <<>> ELSE Head(parts) \o Concat(Tail(parts))

tbl2cls(tbl) ==
    LET t == IF tbl[1] = "_" THEN Tail(tbl) ELSE tbl
        parts == SplitUnderscore(t, 1, <<>>)
    IN  Concat([i \in DOMAIN parts |-> Capitalize(parts[i])])

-----------------------------------------------------------------------------
(* Python's class objects.  A class is a record                            *)
(*   name   the class name,                                                *)
(*   bases  the classes listed in the class statement, in order,           *)
(*   mro    the method resolution order, the class itself first,           *)
(*   dict   the attributes set on the class itself,                        *)
(*   columns  the names of the Column attributes set on the class itself.  *)
(* An attribute that a class does not set is looked up along its mro.      *)

NoError == ""

Definers(C, c, attr) == SelectSeq(C[c].mro, LAMBDA k : Has(C[k].dict, attr))
HasAttr(C, c, attr) == Definers(C, c, attr) # <<>>
GetAttr(C, c, attr) == C[Head(Definers(C, c, attr))].dict[attr]
IsSubclass(C, c, b) == b \in Range(C[c].mro)

\* cls.__subclasses__(): the classes that list c among their bases, in the
\* order of their creation.
Subclasses(C, c) == SelectSeq([i \in 1..Len(C) |-> i], LAMBDA k : c \in Range(C[k].bases))

\* The C3 merge that type.__new__ applies to the linearisations of the bases
\* and the list of bases: the first head that occurs in no tail is taken.
RECURSIVE C3Merge(_)
C3Merge(seqs) ==
    LET live == SelectSeq(seqs, LAMBDA s : s # <<>>)
        good == SelectSeq(live, LAMBDA s :
                    \A j \in DOMAIN live : Head(s) \notin Range(Tail(live[j])))
    IN  IF live = <<>> THEN [ok |-> TRUE, mro |-> <<>>]
        ELSE IF good = <<>> THEN [ok |-> FALSE, mro |-> <<>>]
        ELSE LET h == Head(Head(good))
                 rest == C3Merge([j \in DOMAIN live |->
                            SelectSeq(live[j], LAMBDA x : x # h)])
             IN  [ok |-> rest.ok, mro |-> <<h>> \o rest.mro]

\* The mro of a new class numbered self with the given bases.
NewMro(C, self, bases) ==
    LET m == C3Merge([j \in DOMAIN bases |-> C[bases[j]].mro] \o <<bases>>)
    IN  [ok |-> m.ok, mro |-> <<self>> \o m.mro]

\* create_base(): the class carries {'id_type': id_type, 'base': Base}.
BaseClass(self) ==
    [name  |-> <<"B", "a", "s", "e">>,
     bases |-> <<>>,
     mro   |-> <<self>>,
     dict  |-> [__score_sa_orm__ |-> [id_type |-> "IdType", base |-> self]],
     columns |-> <<>>]

BaseIds == 1..NumBases
Nodes(C) == {c \in DOMAIN C : c \notin BaseIds}

-----------------------------------------------------------------------------
(* base.py: BaseMeta.set_config and its five steps.  A class statement is  *)
(* a record d with the class name, the bases and attrs, the class body:    *)
(*   attrs.__score_sa_orm__   (optional) the declared configuration,       *)
(*   attrs.__mapper_args__    (optional) arguments for sqlalchemy's mapper,*)
(*   attrs.columns            names of the Column attributes, in order.    *)
(* Every step yields the configuration so far, or the exception raised.    *)

Ok(cfg) == [err |-> NoError, stage |-> "", cfg |-> cfg]
Raise(kind, stage, cfg) == [err |-> kind, stage |-> stage, cfg |-> cfg]

MapperArgs(d) == Get(d.attrs, "__mapper_args__", EmptyDict)

\* The exception that building the message of an error raises, if any:
\* '%' with a format of `places` conversions applied to `nargs` values, and
\* str.join over items that are strings or not.
PercentFormat(places, nargs) == IF places = nargs THEN NoError ELSE "TypeError"
StrJoin(itemsAreStr) == IF itemsAreStr THEN NoError ELSE "TypeError"
RaiseWithMessage(msgErr, kind, stage, cfg) ==
    Raise(IF msgErr # NoError THEN msgErr ELSE kind, stage, cfg)

\* base_classes: the 'base' of every base that has a configuration.
BaseClasses(C, d) ==
    {GetAttr(C, d.bases[j], "__score_sa_orm__").base :
        j \in {i \in DOMAIN d.bases : HasAttr(C, d.bases[i], "__score_sa_orm__")}}

set_base_config(C, d, cfg) ==
    LET base_classes == BaseClasses(C, d)
    IN  IF Cardinality(base_classes) > 1
        THEN \* the message joins base_classes.values(), which are classes
             RaiseWithMessage(StrJoin(FALSE), "ConfigurationError", "set_base_config", cfg)
        ELSE IF base_classes = {}
        THEN Raise("StopIteration", "set_base_config", cfg)
        ELSE Ok(Put(cfg, "base", CHOOSE b \in base_classes : TRUE))

\* The bases that are strict subclasses of the base class, in order.
ParentCandidates(C, d, cfg) ==
    SelectSeq(d.bases, LAMBDA b : b # cfg.base /\ IsSubclass(C, b, cfg.base))

set_parent_config(C, d, cfg) ==
    LET cands == ParentCandidates(C, d, cfg)
    IN  IF Len(cands) > 1
        THEN Raise("ConfigurationError", "set_parent_config",
                   Put(cfg, "parent", cands[1]))
        ELSE Ok(Put(cfg, "parent", IF cands = <<>> THEN NoParent ELSE cands[1]))

ValidInheritance == {"single-table", "joined-table", None}

\* set_inheritance_config without the comparison of a child's own strategy
\* with its parent's.
set_inheritance_config_unchecked(C, d, cfg) ==
    IF cfg.parent # NoParent /\ ~Has(cfg, "inheritance")
    THEN Ok(Put(cfg, "inheritance",
                GetAttr(C, cfg.parent, "__score_sa_orm__").inheritance))
    ELSE IF ~Has(cfg, "inheritance")
    THEN Ok(Put(cfg, "inheritance", "joined-table"))
    ELSE Ok(cfg)

\* set_inheritance_config giving every class without a strategy of its own
\* the default, whatever its parent has.
set_inheritance_config_default(C, d, cfg) ==
    IF ~Has(cfg, "inheritance")
    THEN Ok(Put(cfg, "inheritance", "joined-table"))
    ELSE Ok(cfg)

set_inheritance_config(C, d, cfg) ==
    IF cfg.parent # NoParent
    THEN LET inheritance == GetAttr(C, cfg.parent, "__score_sa_orm__").inheritance
         IN  IF inheritance = None
             THEN Raise("ConfigurationError", "set_inheritance_config", cfg)
             ELSE IF ~Has(cfg, "inheritance")
             THEN Ok(Put(cfg, "inheritance", inheritance))
             ELSE IF cfg.inheritance # inheritance
             THEN Raise("ConfigurationError", "set_inheritance_config", cfg)
             ELSE Ok(cfg)
    ELSE IF ~Has(cfg, "inheritance")
    THEN Ok(Put(cfg, "inheritance", "joined-table"))
    ELSE IF cfg.inheritance \notin ValidInheritance
    THEN \* 'Invalid ... "%s" in class %s' % cfg['inheritance'], clsname(cls)
         RaiseWithMessage(PercentFormat(2, 1), "ConfigurationError",
                          "set_inheritance_config", cfg)
    ELSE Ok(cfg)

set_type_name_config(C, d, cfg) ==
    IF ~Has(cfg, "type_name")
    THEN IF Has(MapperArgs(d), "polymorphic_identity")
         THEN Ok(Put(cfg, "type_name", MapperArgs(d).polymorphic_identity))
         ELSE Ok(Put(cfg, "type_name", Tail(cls2tbl(d.name))))
    ELSE IF Has(MapperArgs(d), "polymorphic_identity")
    THEN Raise("ConfigurationError", "set_type_name_config", cfg)
    ELSE Ok(cfg)

set_type_column_config(C, d, cfg) ==
    LET cfg1 == IF Has(cfg, "type_column") THEN cfg
                ELSE IF Has(MapperArgs(d), "polymorphic_on")
                THEN Put(cfg, "type_column", MapperArgs(d).polymorphic_on)
                ELSE Put(cfg, "type_column", "_type")
    IN  IF Has(MapperArgs(d), "polymorphic_on")
        THEN Raise("ConfigurationError", "set_type_column_config", cfg1)
        ELSE Ok(cfg1)

set_config(C, d) ==
    LET cfg0 == Get(d.attrs, "__score_sa_orm__", EmptyDict)
        r1 == set_base_config(C, d, cfg0)
        r2 == IF r1.err # NoError THEN r1 ELSE set_parent_config(C, d, r1.cfg)
        r3 == IF r2.err # NoError THEN r2 ELSE set_inheritance_config(C, d, r2.cfg)
        r4 == IF r3.err # NoError THEN r3 ELSE set_type_name_config(C, d, r3.cfg)
        r5 == IF r4.err # NoError THEN r4 ELSE set_type_column_config(C, d, r4.cfg)
    IN  r5

-----------------------------------------------------------------------------
(* base.py: the rest of BaseMeta.__init__.  w is the class under           *)
(* construction: ns, the attributes set on it so far; columns, the names   *)
(* of its Column attributes in the order of their creation; idfk, the      *)
(* foreign key of a generated id column.                                   *)

NoTable == <<>>

\* getattr(cls, attr) for the class under construction.
LookupNew(C, w, mro, attr) ==
    LET inherited == SelectSeq(Tail(mro), LAMBDA k : Has(C[k].dict, attr))
    IN  IF Has(w.ns, attr) THEN [found |-> TRUE, value |-> w.ns[attr]]
        ELSE IF inherited # <<>>
        THEN [found |-> TRUE, value |-> C[Head(inherited)].dict[attr]]
        ELSE [found |-> FALSE, value |-> EmptyDict]

IsSingleTableChild(cfg) == cfg.inheritance = "single-table" /\ cfg.parent # NoParent

set_tablename(C, d, cfg, w) ==
    IF IsSingleTableChild(cfg) THEN w
    ELSE [w EXCEPT !.ns = Put(w.ns, "__tablename__", cls2tbl(d.name))]

configure_inheritance(C, d, cfg, w) ==
    IF cfg.inheritance = None THEN w
    ELSE LET ns1 == IF ~Has(d.attrs, "__mapper_args__")
                    THEN Put(w.ns, "__mapper_args__", EmptyDict) ELSE w.ns
             ma1 == IF ~Has(ns1["__mapper_args__"], "polymorphic_identity")
                    THEN Put(ns1["__mapper_args__"], "polymorphic_identity", cfg.type_name)
                    ELSE ns1["__mapper_args__"]
         IN  IF cfg.parent # NoParent
             THEN [w EXCEPT !.ns = Put(ns1, "__mapper_args__", ma1)]
             ELSE [w EXCEPT
                     !.ns = Put(ns1, "__mapper_args__",
                                Put(ma1, "polymorphic_on", cfg.type_column)),
                     !.columns = IF cfg.type_column \notin Range(d.attrs.columns)
                                 THEN Append(w.columns, cfg.type_column)
                                 ELSE w.columns]

\* sa.ForeignKey('<table>.id', ondelete=..., onupdate=...)
ForeignKey(table, ondelete, onupdate) ==
    [table |-> table, column |-> "id", ondelete |-> ondelete, onupdate |-> onupdate]

\* The key to the table of the first base that is a strict subclass of the
\* base class.
\* set_id without the loop over the bases: the id column of a root.
IdForeignKey_none(C, d, cfg) == NoTable

IdForeignKey(C, d, cfg) ==
    LET cands == ParentCandidates(C, d, cfg)
    IN  IF cands = <<>> THEN NoTable
        ELSE ForeignKey(GetAttr(C, cands[1], "__tablename__"), "CASCADE", "CASCADE")

set_id(C, d, cfg, w, mro) ==
    LET ma == LookupNew(C, w, mro, "__mapper_args__")
    IN  IF IsSingleTableChild(cfg) THEN w
        ELSE IF ma.found /\ Has(ma.value, "primary_key") THEN w
        ELSE IF "id" \in Range(d.attrs.columns) THEN w
        ELSE [w EXCEPT !.columns = Append(w.columns, "id"),
                       !.idfk = IdForeignKey(C, d, cfg)]

\* DeclarativeMeta.__init__ (sqlalchemy), as far as the module relies on it:
\* a class with a __tablename__ of its own gets a new Table in the metadata
\* of its base class, and a table name taken twice is an error; a class
\* without one adds its columns to the table it inherits, and a column
\* name taken twice is an error.
declarative_init(C, T, d, cfg, w, mro) ==
    LET meta == T[cfg.base]
    IN  IF Has(w.ns, "__tablename__")
        THEN LET tn == w.ns["__tablename__"]
             IN  IF Has(meta, tn)
                 THEN [err |-> "InvalidRequestError", tables |-> T, w |-> w]
                 ELSE [err |-> NoError,
                       tables |-> [T EXCEPT ![cfg.base] =
                                     Put(meta, tn, [columns |-> w.columns, idfk |-> w.idfk])],
                       w |-> [w EXCEPT !.ns = Put(w.ns, "__table__", tn)]]
        ELSE LET tn == LookupNew(C, w, mro, "__table__").value
             IN  IF \E c \in Range(w.columns) : c \in Range(meta[tn].columns)
                 THEN [err |-> "ArgumentError", tables |-> T, w |-> w]
                 ELSE [err |-> NoError,
                       tables |-> [T EXCEPT ![cfg.base] =
                                     Put(meta, tn, [meta[tn] EXCEPT
                                         !.columns = meta[tn].columns \o w.columns])],
                       w |-> w]

\* BaseMeta.__init__ after set_config has succeeded with cfg.
FinishClass(C, T, d, cfg, mro) ==
    LET w0 == [ns |-> Put(IF Has(d.attrs, "__mapper_args__")
                          THEN [__mapper_args__ |-> d.attrs["__mapper_args__"]]
                          ELSE EmptyDict,
                          "__score_sa_orm__", cfg),
               columns |-> d.attrs.columns,
               idfk |-> NoTable]
        w1 == set_tablename(C, d, cfg, w0)
        w2 == configure_inheritance(C, d, cfg, w1)
        w3 == set_id(C, d, cfg, w2, mro)
    IN  declarative_init(C, T, d, cfg, w3, mro)

-----------------------------------------------------------------------------
(* The class statement.  type.__new__ has made the class object, so the    *)
(* bases have a method resolution order, before BaseMeta.__init__ runs.    *)
(* An exception raised by BaseMeta.__init__ leaves the class statement and *)
(* the module that holds it: the run ends there, and no class is kept.     *)

NoDecl == [name |-> <<>>, bases |-> <<>>, attrs |-> [columns |-> <<>>]]

Outcome(result, stage, d, cfg, cls) ==
    [result |-> result, stage |-> stage, decl |-> d, cfg |-> cfg, cls |-> cls]

Running == last.result \in {"none", "ok"}

Declare(d) ==
    /\ NewMro(classes, Len(classes) + 1, d.bases).ok
    /\ LET self == Len(classes) + 1
           m == NewMro(classes, self, d.bases)
           r == set_config(classes, d)
           f == FinishClass(classes, tables, d, r.cfg, m.mro)
       IN  IF r.err # NoError
           THEN /\ last' = Outcome(r.err, r.stage, d, r.cfg, 0)
                /\ UNCHANGED <<classes, tables>>
           ELSE IF f.err # NoError
           THEN /\ last' = Outcome(f.err, "DeclarativeMeta.__init__", d, r.cfg, 0)
                /\ UNCHANGED <<classes, tables>>
           ELSE /\ classes' = Append(classes, [name |-> d.name, bases |-> d.bases,
                                               mro |-> m.mro, dict |-> f.w.ns,
                                               columns |-> f.w.columns])
                /\ tables' = f.tables
                /\ last' = Outcome("ok", "", d, r.cfg, self)
    /\ UNCHANGED <<views, triggers, log, built, dbtables, rows, cascade, call, modvars>>

-----------------------------------------------------------------------------
(* views.py: the statements of a class's inheritance view.                 *)

Cfg(C, c) == GetAttr(C, c, "__score_sa_orm__")
TableOf(C, c) == GetAttr(C, c, "__table__")
TableColumns(C, T, c) == T[Cfg(C, c).base][TableOf(C, c)].columns
ViewName(C, c) == Tail(GetAttr(C, c, "__tablename__"))

\* The parent, its parent, and so on up to the class without a parent.
RECURSIVE Ancestors(_, _)
Ancestors(C, c) ==
    LET p == Cfg(C, c).parent
    IN  IF p = NoParent THEN <<>> ELSE <<p>> \o Ancestors(C, p)

\* add_cols without the test for a name that is already selected.
add_cols_unchecked(cols, table, names) ==
    cols \o [i \in DOMAIN names |-> [table |-> table, name |-> names[i]]]

\* add_cols: the columns of a table whose names are not collected yet.
RECURSIVE AddCols(_, _, _)
AddCols(cols, table, names) ==
    IF names = <<>> THEN cols
    ELSE AddCols(IF \E i \in DOMAIN cols : cols[i].name = Head(names)
                 THEN cols
                 ELSE Append(cols, [table |-> table, name |-> Head(names)]),
                 table, Tail(names))

\* add_cols over the class's own table, then over the tables of `chain`.
RECURSIVE CollectCols(_, _, _, _)
CollectCols(C, T, cols, chain) ==
    IF chain = <<>> THEN cols
    ELSE CollectCols(C, T,
                     AddCols(cols, TableOf(C, Head(chain)), TableColumns(C, T, Head(chain))),
                     Tail(chain))

\* add_typenames without the descent into the subclasses.
add_typenames_flat(C, c) == <<Cfg(C, c).type_name>>

\* add_typenames: the type_name of cls, then of its subclasses, depth first.
RECURSIVE AddTypenamesOver(_, _)
AddTypenames(C, c) == <<Cfg(C, c).type_name>> \o AddTypenamesOver(C, Subclasses(C, c))
AddTypenamesOver(C, cs) ==
    IF cs = <<>> THEN <<>>
    ELSE AddTypenames(C, Head(cs)) \o AddTypenamesOver(C, Tail(cs))

\* getattr(class_, name) for a Column attribute: the column of the first
\* class of the mro that sets it.
ColumnAttr(C, c, name) ==
    LET owners == SelectSeq(C[c].mro, LAMBDA k : name \in Range(C[k].columns))
    IN  IF owners = <<>> THEN [found |-> FALSE, column |-> EmptyDict]
        ELSE [found |-> TRUE,
              column |-> [table |-> TableOf(C, Head(owners)), name |-> name]]

\* The chain of parents that the view walks.
ViewChain(C, c) == IF Cfg(C, c).inheritance # None THEN Ancestors(C, c) ELSE <<>>

\* tables.join(table, onclause=table.c.id == class_.__table__.c.id)
ViewJoins(C, c) ==
    LET chain == ViewChain(C, c)
    IN  [i \in DOMAIN chain |->
            [table |-> TableOf(C, chain[i]),
             on |-> <<[table |-> TableOf(C, chain[i]), name |-> "id"],
                      [table |-> TableOf(C, c), name |-> "id"]>>]]

\* table.c.id raises AttributeError for a table without a column id.
ViewJoinError(C, T, c) ==
    LET chain == ViewChain(C, c)
    IN  IF chain # <<>> /\ \E k \in Range(chain) \cup {c} : "id" \notin Range(TableColumns(C, T, k))
        THEN "AttributeError" ELSE NoError

ViewColumns(C, T, c) ==
    CollectCols(C, T, AddCols(<<>>, TableOf(C, c), TableColumns(C, T, c)), ViewChain(C, c))

CreateView(name, select) == [op |-> "CREATE VIEW", name |-> name, select |-> select]
DropView(name) == [op |-> "DROP VIEW IF EXISTS", name |-> name]

generate_create_inheritance_view_statement(C, T, c) ==
    LET cfg == Cfg(C, c)
        typecol == ColumnAttr(C, c, cfg.type_column)
    IN  IF ViewJoinError(C, T, c) # NoError
        THEN [err |-> ViewJoinError(C, T, c), stmt |-> EmptyDict]
        ELSE IF cfg.inheritance # "single-table"
        THEN [err |-> NoError,
              stmt |-> CreateView(ViewName(C, c),
                         [columns |-> ViewColumns(C, T, c),
                          from |-> TableOf(C, c),
                          joins |-> ViewJoins(C, c),
                          where |-> <<>>])]
        ELSE IF ~typecol.found
        THEN [err |-> "AttributeError", stmt |-> EmptyDict]
        ELSE [err |-> NoError,
              stmt |-> CreateView(ViewName(C, c),
                         [columns |-> ViewColumns(C, T, c),
                          from |-> TableOf(C, c),
                          joins |-> <<>>,
                          where |-> <<[column |-> typecol.column,
                                       in |-> AddTypenames(C, c)]>>])]

generate_drop_inheritance_view_statement(C, c) == DropView(ViewName(C, c))

-----------------------------------------------------------------------------
(* triggers.py and _init.py: the statements of a class's inheritance       *)
(* trigger, and their execution by the session.                            *)

TriggerName(table) == <<"a", "u", "t", "o", "d", "e", "l">> \o table

DropInheritanceTrigger(table) ==
    [op |-> "DROP TRIGGER IF EXISTS", name |-> TriggerName(table), table |-> table]

\* CREATE TRIGGER autodel{table} AFTER DELETE ON {table} FOR EACH ROW
\*   DELETE FROM {parent} WHERE id = OLD.id
CreateInheritanceTrigger(table, parent) ==
    [op |-> "CREATE TRIGGER", name |-> TriggerName(table),
     event |-> "AFTER DELETE", table |-> table,
     parent |-> parent, where |-> <<"id", "OLD.id">>]

Without(f, k) == [x \in (DOMAIN f) \ {k} |-> f[x]]

\* session.execute(stmt) for the class c; nothing runs after an exception.
Execute(st, stmt, c) ==
    IF st.err # NoError THEN st
    ELSE LET st1 == [st EXCEPT !.log = Append(st.log, [stmt |-> stmt, cls |-> c])]
         IN  CASE stmt.op = "DROP VIEW IF EXISTS" ->
                    [st1 EXCEPT !.views = Without(st.views, stmt.name)]
               [] stmt.op = "CREATE VIEW" ->
                    IF Has(st.views, stmt.name)
                    THEN [st1 EXCEPT !.err = "OperationalError"]
                    ELSE [st1 EXCEPT !.views = Put(st.views, stmt.name, stmt.select)]
               [] stmt.op = "DROP TRIGGER IF EXISTS" ->
                    [st1 EXCEPT !.triggers = Without(st.triggers, stmt.name)]
               [] stmt.op = "CREATE TRIGGER" ->
                    IF Has(st.triggers, stmt.name)
                    THEN [st1 EXCEPT !.err = "OperationalError"]
                    ELSE [st1 EXCEPT !.triggers =
                            Put(st.triggers, stmt.name,
                                [table |-> stmt.table, parent |-> stmt.parent])]

\* An exception raised while a statement is generated.
Fail(st, err) == IF st.err # NoError THEN st ELSE [st EXCEPT !.err = err]

\* _create_inheritance_trigger without the CREATE TRIGGER statement.
_create_inheritance_trigger_droponly(C, st, c) ==
    Execute(st, DropInheritanceTrigger(TableOf(C, c)), c)

\* _create_inheritance_trigger with parent_tables[-1] for parent_tables[0].
_create_inheritance_trigger_root(C, st, c) ==
    LET chain == Ancestors(C, c)
        st1 == Execute(st, DropInheritanceTrigger(TableOf(C, c)), c)
    IN  IF chain # <<>>
        THEN Execute(st1, CreateInheritanceTrigger(TableOf(C, c),
                                                   TableOf(C, chain[Len(chain)])), c)
        ELSE st1

_create_inheritance_trigger(C, st, c) ==
    LET chain == Ancestors(C, c)
        parent_tables == [i \in DOMAIN chain |-> TableOf(C, chain[i])]
        st1 == Execute(st, DropInheritanceTrigger(TableOf(C, c)), c)
    IN  IF parent_tables # <<>>
        THEN Execute(st1, CreateInheritanceTrigger(TableOf(C, c), parent_tables[1]), c)
        ELSE st1

\* _create_inheritance_view without the DROP VIEW IF EXISTS statement.
_create_inheritance_view_nodrop(C, T, st, c) ==
    LET g == generate_create_inheritance_view_statement(C, T, c)
    IN  IF Cfg(C, c).inheritance # None
        THEN IF g.err # NoError THEN Fail(st, g.err) ELSE Execute(st, g.stmt, c)
        ELSE st

_create_inheritance_view(C, T, st, c) ==
    LET st1 == Execute(st, generate_drop_inheritance_view_statement(C, c), c)
        g == generate_create_inheritance_view_statement(C, T, c)
    IN  IF Cfg(C, c).inheritance # None
        THEN IF g.err # NoError THEN Fail(st1, g.err) ELSE Execute(st1, g.stmt, c)
        ELSE st1

\* for cls in classes: trigger, then view.
RECURSIVE CreateClasses(_, _, _, _)
CreateClasses(C, T, st, cs) ==
    IF cs = <<>> \/ st.err # NoError THEN st
    ELSE CreateClasses(C, T,
            _create_inheritance_view(C, T, _create_inheritance_trigger(C, st, Head(cs)),
                                     Head(cs)),
            Tail(cs))

\* [sub for cls in classes for sub in cls.__subclasses__()]
RECURSIVE SubclassesOfAll(_, _)
SubclassesOfAll(C, cs) ==
    IF cs = <<>> THEN <<>> ELSE Subclasses(C, Head(cs)) \o SubclassesOfAll(C, Tail(cs))

\* while classes: ...
RECURSIVE CreateLevels(_, _, _, _)
CreateLevels(C, T, st, cs) ==
    IF cs = <<>> \/ st.err # NoError THEN st
    ELSE CreateLevels(C, T, CreateClasses(C, T, st, cs), SubclassesOfAll(C, cs))

\* The base class that the module was initialised with (self.Base).
ModuleBase == 1

\* [cls for cls in self.Base.__subclasses__() if cls...['parent'] is None]
RootClasses(C) == SelectSeq(Subclasses(C, ModuleBase), LAMBDA c : Cfg(C, c).parent = NoParent)

\* The dialects that the statements of the module compile for.
Dialects == {"sqlite", "postgresql"}
\* A session that is dropped without a commit rolls back.  The statements of
\* the pass are DDL statements: postgresql runs them in the session's
\* transaction; the sqlite driver opens no transaction for them, and each
\* one is final when it has run.
TransactionalDDL(e) == e = "postgresql"

\* self.Base.metadata.create_all(): every table of the metadata that the
\* database lacks, on a connection of the engine, before the session exists.
create_all(T, existing) == existing \cup DOMAIN T[ModuleBase]

\* ConfiguredSaOrmModule.create: the pass commits when no statement raised.
\* What a failed pass leaves of its statements depends on the dialect of
\* db.engine, which the model does not fix.
CreatePass ==
    /\ Running /\ cascade.pending = {}
    /\ LET st == CreateLevels(classes, tables,
                              [views |-> views, triggers |-> triggers, log |-> <<>>,
                               err |-> NoError],
                              RootClasses(classes))
       IN  /\ dbtables' = create_all(tables, dbtables)
           /\ \E e \in IF st.err = NoError THEN {"committed"} ELSE Dialects :
                  LET kept == st.err = NoError \/ ~TransactionalDDL(e)
                  IN  /\ views' = IF kept THEN st.views ELSE views
                      /\ triggers' = IF kept THEN st.triggers ELSE triggers
           /\ log' = st.log
           /\ built' = [result |-> IF st.err = NoError THEN "ok" ELSE st.err,
                        committed |-> st.err = NoError,
                        classes |-> Len(classes)]
    /\ UNCHANGED <<classes, tables, last, rows, cascade, modvars>>

Create == CreatePass /\ UNCHANGED call

\* create() called again, on the hierarchy and the database that the last
\* pass left; the call keeps what that pass had executed and left.
Rebuild ==
    /\ built.result # "none" /\ built.classes = Len(classes)
    /\ CreatePass
    /\ call' = [fn |-> "create",
                before |-> [log |-> log, views |-> views, triggers |-> triggers,
                            result |-> built.result, classes |-> built.classes]]

-----------------------------------------------------------------------------
(* The rows of the database.  An object of a class has a row with its id   *)
(* in the table of the class and, through the foreign key of the id        *)
(* column, in the table of every ancestor.  Both dialects enforce the      *)
(* foreign keys: init() switches them on for sqlite.  A DELETE statement   *)
(* runs the triggers of the build pass and the ON DELETE CASCADE of the    *)
(* keys, row by row, until no delete is left.                              *)

MaxIds == 2
Ids == 1..MaxIds

RowsOf(R, t) == Get(R, t, {})

\* No DELETE statement has run: nothing is pending, nothing was asked for.
NoCascade == [pending |-> {}, table |-> NoTable, id |-> 0, before |-> EmptyDict]

\* The tables of the class c and of its ancestors, its own first.
TableChain(C, c) ==
    LET chain == <<c>> \o Ancestors(C, c)
    IN  {TableOf(C, chain[i]) : i \in DOMAIN chain}

\* session.add(<object of class c with id i>) and flush.
InsertObject(c, i) ==
    /\ Running /\ cascade.pending = {}
    /\ TableChain(classes, c) \subseteq dbtables
    /\ \A t \in dbtables : i \notin RowsOf(rows, t)
    /\ rows' = [t \in DOMAIN rows \cup TableChain(classes, c) |->
                   IF t \in TableChain(classes, c)
                   THEN RowsOf(rows, t) \cup {i} ELSE rows[t]]
    /\ cascade' = NoCascade
    /\ UNCHANGED <<classes, tables, last, views, triggers, log, built,
                   dbtables, call, modvars>>

\* DELETE FROM <t> WHERE id = <i>, as a statement of the application.
DeleteRow(t, i) ==
    /\ Running /\ cascade.pending = {}
    /\ i \in RowsOf(rows, t)
    /\ cascade' = [pending |-> {[table |-> t, id |-> i]}, table |-> t, id |-> i,
                   before |-> rows]
    /\ UNCHANGED <<classes, tables, last, views, triggers, log, built,
                   dbtables, rows, call, modvars>>

\* The deletes that the removal of row i of table t brings about: the
\* DELETE of every trigger on t (DELETE FROM {parent} WHERE id = OLD.id), and
\* the rows whose id column has a key to t with ON DELETE CASCADE.
TriggeredDeletes(t, i) ==
    {[table |-> triggers[n].parent, id |-> i] :
        n \in {m \in DOMAIN triggers : triggers[m].table = t}}
ForeignKeyDeletes(T, t, i) ==
    {[table |-> x, id |-> i] :
        x \in {y \in dbtables \cap DOMAIN T[ModuleBase] :
                  /\ T[ModuleBase][y].idfk # NoTable
                  /\ T[ModuleBase][y].idfk.table = t
                  /\ T[ModuleBase][y].idfk.ondelete = "CASCADE"}}

\* The database carries out one of the pending deletes.
CascadeStep ==
    /\ cascade.pending # {}
    /\ \E del \in cascade.pending :
           IF del.id \in RowsOf(rows, del.table)
           THEN /\ rows' = [rows EXCEPT ![del.table] = @ \ {del.id}]
                /\ cascade' = [cascade EXCEPT !.pending =
                                  (@ \ {del}) \cup TriggeredDeletes(del.table, del.id)
                                             \cup ForeignKeyDeletes(tables, del.table, del.id)]
           ELSE /\ rows' = rows
                /\ cascade' = [cascade EXCEPT !.pending = @ \ {del}]
    /\ UNCHANGED <<classes, tables, last, views, triggers, log, built,
                   dbtables, call, modvars>>

-----------------------------------------------------------------------------
(* The class statements that the model tries.                              *)

Animal == <<"A", "n", "i", "m", "a", "l">>
Dog == <<"D", "o", "g">>
Cat == <<"C", "a", "t">>
Pup == <<"P", "u", "p">>
Kit == <<"K", "i", "t">>
ClassNameSeq == <<Animal, Dog, Cat, Pup, Kit>>

\* Class names are interchangeable: a class statement takes a name that is
\* in use already, or the first name of ClassNameSeq that is not.
UsedNames(C) == {C[c].name : c \in Nodes(C)}
FreshName(C) ==
    LET fresh == SelectSeq(ClassNameSeq, LAMBDA n : n \notin UsedNames(C))
    IN  IF fresh = <<>> THEN {} ELSE {Head(fresh)}
NameChoices(C) == UsedNames(C) \cup FreshName(C)

\* attrs of a class body: a key is present when its dictionary is not empty.
Attrs(sa, mapper, columns) ==
    [k \in {"columns"} \cup (IF sa # EmptyDict THEN {"__score_sa_orm__"} ELSE {})
                       \cup (IF mapper # EmptyDict THEN {"__mapper_args__"} ELSE {})
       |-> IF k = "columns" THEN columns
           ELSE IF k = "__score_sa_orm__" THEN sa ELSE mapper]

\* A dictionary with the keys of `keys` whose value in `full` differs from
\* `unset`.
Unset == "<unset>"
UnsetName == <<>>
SaDict(inheritance, type_name, type_column) ==
    [k \in (IF inheritance # Unset THEN {"inheritance"} ELSE {})
           \cup (IF type_name # UnsetName THEN {"type_name"} ELSE {})
           \cup (IF type_column # Unset THEN {"type_column"} ELSE {})
       |-> IF k = "inheritance" THEN inheritance
           ELSE IF k = "type_name" THEN type_name ELSE type_column]

\* The lists of distinct classes of `S`, of length 1 to n.
BaseLists(S, n) ==
    UNION {{b \in [1..k -> S] : \A i, j \in 1..k : i # j => b[i] # b[j]} : k \in 1..n}

\* Resolution of base and parent: any list of bases, every inheritance
\* value.
ResolveDecls(C) ==
    {[name |-> n, bases |-> b, attrs |-> Attrs(SaDict(i, UnsetName, Unset), EmptyDict, <<>>)] :
        n \in FreshName(C), b \in BaseLists(DOMAIN C, MaxBasesPerClass),
        i \in {Unset, "joined-table", "single-table", None, "bogus"}}

\* Resolution of the strategy: one base, every inheritance value.
StrategyDecls(C) ==
    {[name |-> n, bases |-> <<b>>,
      attrs |-> Attrs(SaDict(i, UnsetName, Unset), EmptyDict, <<>>)] :
        n \in FreshName(C), b \in DOMAIN C,
        i \in {Unset, "joined-table", "single-table", None, "bogus"}}

\* Resolution of the discriminator: one base, declared or derived
\* type_name and type_column.
DiscriminatorDecls(C) ==
    {[name |-> n, bases |-> <<b>>,
      attrs |-> Attrs(SaDict(i, tn, tc), EmptyDict, <<>>)] :
        n \in NameChoices(C), b \in {c \in DOMAIN C : IsSubclass(C, c, ModuleBase)},
        i \in {Unset, "single-table"}, tn \in {UnsetName, <<"d", "o", "g">>},
        tc \in {Unset, "kind"}}

\* The build pass: one base, the three strategies, with and without a
\* column of the class's own.
ColumnLists == {<<>>, <<"name">>}
BuildDecls(C) ==
    {[name |-> n, bases |-> <<b>>,
      attrs |-> Attrs(SaDict(i, UnsetName, Unset), EmptyDict, cols)] :
        n \in FreshName(C), b \in {c \in DOMAIN C : IsSubclass(C, c, ModuleBase)},
        i \in {Unset, "single-table", None}, cols \in ColumnLists}

\* A chain of joined-table classes: the base is the class declared last, or
\* the base class; nothing is declared in the class body.
ChainDecls(C) ==
    {[name |-> n, bases |-> <<b>>, attrs |-> Attrs(EmptyDict, EmptyDict, <<>>)] :
        n \in FreshName(C),
        b \in {c \in DOMAIN C : IF Nodes(C) = {} THEN c = ModuleBase ELSE c = Len(C)}}

\* The build pass over hierarchies whose classes may name a type column:
\* one base, the three strategies, type_column declared or not.
TransactionDecls(C) ==
    {[name |-> n, bases |-> <<b>>,
      attrs |-> Attrs(SaDict(i, UnsetName, tc), EmptyDict, <<>>)] :
        n \in FreshName(C), b \in {c \in DOMAIN C : IsSubclass(C, c, ModuleBase)},
        i \in {Unset, "single-table", None}, tc \in {Unset, "kind"}}

\* Repeated build passes: one base, the three strategies, nothing else in
\* the class body.
RebuildDecls(C) ==
    {[name |-> n, bases |-> <<b>>,
      attrs |-> Attrs(SaDict(i, UnsetName, Unset), EmptyDict, <<>>)] :
        n \in FreshName(C), b \in {c \in DOMAIN C : IsSubclass(C, c, ModuleBase)},
        i \in {Unset, "single-table", None}}

MaxIdentityNodes == 2
\* The id column: one base, the three strategies, with and without an id
\* column of the class's own and a primary key in __mapper_args__.
IdentityDecls(C) ==
    {[name |-> n, bases |-> <<b>>,
      attrs |-> Attrs(SaDict(i, UnsetName, Unset), ma, cols)] :
        n \in FreshName(C), b \in {c \in DOMAIN C : IsSubclass(C, c, ModuleBase)},
        i \in {Unset, "single-table", None},
        ma \in {EmptyDict, [primary_key |-> "name"]},
        cols \in {<<>>, <<"id">>, <<"name">>}}

\* The two ways to name the discriminator: one base, type_name and
\* type_column in __score_sa_orm__, polymorphic_identity and polymorphic_on
\* in __mapper_args__, each present or not.
MaxMapperNodes == 2
MapperDict(polymorphic_identity, polymorphic_on) ==
    [k \in (IF polymorphic_identity # UnsetName THEN {"polymorphic_identity"} ELSE {})
           \cup (IF polymorphic_on # Unset THEN {"polymorphic_on"} ELSE {})
       |-> IF k = "polymorphic_identity" THEN polymorphic_identity ELSE polymorphic_on]
MapperDecls(C) ==
    {[name |-> n, bases |-> <<b>>,
      attrs |-> Attrs(SaDict(i, tn, tc), MapperDict(pi, po), <<>>)] :
        n \in FreshName(C), b \in {c \in DOMAIN C : IsSubclass(C, c, ModuleBase)},
        i \in {Unset, "single-table"},
        tn \in {UnsetName, <<"d", "o", "g">>}, tc \in {Unset, "kind"},
        pi \in {UnsetName, <<"p", "e", "t">>}, po \in {Unset, "species"}}

\* No function has been called.
NoCall == [fn |-> "none"]
\* Base.metadata.bind of a base class that init() has not bound.
NoEngine == None

-----------------------------------------------------------------------------
(* dataloader.py: the objects of a relationship.  `objects` is the         *)
(* dictionary of the loaded objects: for each class name, in the order in  *)
(* which the names were added, the objects of that class by their id.  A   *)
(* value is an id or a list of values.                                     *)

\* The classes that the data names: zoo.Animal, zoo.Dog(Animal), zoo.Plant.
LoaderClasses ==
    <<[module |-> "zoo", name |-> "Animal", bases |-> <<>>, mro |-> <<1>>],
      [module |-> "zoo", name |-> "Dog", bases |-> <<1>>, mro |-> <<2, 1>>],
      [module |-> "zoo", name |-> "Plant", bases |-> <<>>, mro |-> <<3>>]>>

\* '%s.%s' % (cls.__module__, cls.__name__)
DottedPath(K, c) == <<K[c].module, ".", K[c].name>>
\* classes[classname], which is parse_dotted_path(classname)
parse_dotted_path(K, classname) == CHOOSE c \in DOMAIN K : DottedPath(K, c) = classname

\* cls() for the id `i` of the data of `classname`.
NewObject(classname, i) == [classname |-> classname, id |-> i]

IdValue(i) == [kind |-> "id", id |-> i]
ListValue(items) == [kind |-> "list", items |-> items]

Returned(v) == [err |-> NoError, value |-> v]
Raised(e) == [err |-> e, value |-> None]

\* for classname in objects: ..., from the k-th name on.
RECURSIVE ScanObjects(_, _, _, _, _)
ScanObjects(K, objects, c, value, k) ==
    IF k > Len(objects) THEN Raised("DataLoaderException")
    ELSE IF ~IsSubclass(K, parse_dotted_path(K, objects[k].classname), c)
    THEN ScanObjects(K, objects, c, value, k + 1)
    ELSE IF value.id \in DOMAIN objects[k].byid
    THEN Returned(objects[k].byid[value.id])
    ELSE ScanObjects(K, objects, c, value, k + 1)

RECURSIVE _replace_object(_, _, _, _)
_replace_object(K, objects, c, value) ==
    IF value.kind = "list"
    THEN LET rs == [i \in DOMAIN value.items |->
                        _replace_object(K, objects, c, value.items[i])]
             failed == {i \in DOMAIN rs : rs[i].err # NoError}
         IN  IF failed = {}
             THEN Returned([i \in DOMAIN rs |-> rs[i].value])
             ELSE Raised(rs[CHOOSE i \in failed : \A j \in failed : i <= j].err)
    ELSE LET key == DottedPath(K, c)
             at == {k \in DOMAIN objects : objects[k].classname = key}
         IN  IF at # {}
             THEN \* objects[key][value]
                  LET byid == objects[CHOOSE k \in at : TRUE].byid
                  IN  IF value.id \in DOMAIN byid THEN Returned(byid[value.id])
                      ELSE Raised("KeyError")
             ELSE ScanObjects(K, objects, c, value, 1)

\* The dictionaries of loaded objects: some of the classes, in any order,
\* each with objects for some of the ids.
Orders(S) ==
    {o \in [1..Cardinality(S) -> S] : \A i, j \in DOMAIN o : i # j => o[i] # o[j]}
LoadedObjects ==
    UNION {UNION {{[k \in DOMAIN o |->
                      [classname |-> DottedPath(LoaderClasses, o[k]),
                       byid |-> [i \in f[o[k]] |->
                                    NewObject(DottedPath(LoaderClasses, o[k]), i)]]] :
                    f \in [S -> SUBSET Ids]} : o \in Orders(S)} :
           S \in SUBSET DOMAIN LoaderClasses}

\* The values of a relationship in the data: an id, or a list of ids.
MaxListLen == 2
RelationshipValues ==
    {IdValue(i) : i \in Ids}
        \cup {ListValue([j \in DOMAIN l |-> IdValue(l[j])]) :
                 l \in UNION {[1..n -> Ids] : n \in 1..MaxListLen}}

ReplaceObject ==
    /\ call = NoCall
    /\ \E objects \in LoadedObjects, c \in DOMAIN LoaderClasses, v \in RelationshipValues :
           call' = [fn |-> "_replace_object", objects |-> objects, cls |-> c, value |-> v,
                    result |-> _replace_object(LoaderClasses, objects, c, v)]
    /\ UNCHANGED <<classes, tables, last, views, triggers, log, built, dbtables,
                   rows, cascade, modvars>>

-----------------------------------------------------------------------------
(* _session.py: QueryIdsMixin.by_ids.  `db` is the set of the ids that the *)
(* table of the type has rows for; the object of a row is known by its id. *)
(* by_ids is a generator: what it yields is a sequence, and an exception   *)
(* ends it.                                                                *)

chunk_size == 20

\* The object that a query returns for the row with the id `i`.
Entity(i) == [id |-> i]

\* self.query(type.id).filter(type.id.in_(ids)).all(): one row for each id
\* of the table that is among `ids`.
QueryIds(db, ids) == db \cap Range(ids)

\* dict(self.query(type.id, type).filter(type.id.in_(chunk)))
QueryObjects(db, chunk) == [i \in db \cap Range(chunk) |-> Entity(i)]

\* for id in chunk: yield result[id], unless that is a KeyError.
YieldChunk(result, chunk) ==
    LET found == SelectSeq(chunk, LAMBDA i : i \in DOMAIN result)
    IN  [k \in DOMAIN found |-> result[found[k]]]

\* The loop without the chunks: only the first chunk_size ids are looked up.
RECURSIVE YieldChunks(_, _)
YieldChunks_firstonly(db, ids) ==
    LET n == IF Len(ids) < chunk_size THEN Len(ids) ELSE chunk_size
    IN  YieldChunk(QueryObjects(db, SubSeq(ids, 1, n)), SubSeq(ids, 1, n))

\* while len(ids) > 0: ...
YieldChunks(db, ids) ==
    IF Len(ids) = 0 THEN <<>>
    ELSE LET n == IF Len(ids) < chunk_size THEN Len(ids) ELSE chunk_size
             chunk == SubSeq(ids, 1, n)
             rest == SubSeq(ids, n + 1, Len(ids))
         IN  YieldChunk(QueryObjects(db, chunk), chunk) \o YieldChunks(db, rest)

by_ids(db, ids, ignore_missing) ==
    LET existing_ids == QueryIds(db, ids)
        missing_ids == SelectSeq(ids, LAMBDA i : i \notin existing_ids)
    IN  IF ~ignore_missing /\ Cardinality(existing_ids) # Len(ids)
        THEN [err |-> "IdsNotFound", args |-> missing_ids, yielded |-> <<>>]
        ELSE [err |-> NoError, args |-> <<>>, yielded |-> YieldChunks(db, ids)]

\* The lists of ids: a pattern of ids, repeated up to a length around the
\* multiples of the chunk size.
MaxChunks == 2
MaxPatternLen == 3
IdPatterns == UNION {[1..k -> Ids] : k \in 1..MaxPatternLen}
IdListLens ==
    (0..MaxPatternLen)
        \cup {k * chunk_size + d : k \in 1..MaxChunks, d \in {-1, 0, 1}}
Repeat(pattern, n) == [k \in 1..n |-> pattern[((k - 1) % Len(pattern)) + 1]]
IdLists == {Repeat(pattern, n) : pattern \in IdPatterns, n \in IdListLens}

ByIds ==
    /\ call = NoCall
    /\ \E db \in SUBSET Ids, ids \in IdLists, ignore_missing \in BOOLEAN :
           call' = [fn |-> "by_ids", db |-> db, ids |-> ids,
                    ignore_missing |-> ignore_missing,
                    result |-> by_ids(db, ids, ignore_missing)]
    /\ UNCHANGED <<classes, tables, last, views, triggers, log, built, dbtables,
                   rows, cascade, modvars>>

-----------------------------------------------------------------------------
(* _init.py: init(confdict, db, ctx).  confdict is a dictionary; db is the *)
(* configured score.sa.db module, with its engine and its ctx_transaction; *)
(* ctx is the configured score.ctx module, or None.  A dotted path is a    *)
(* record of its module and the name in it; the base classes of create_    *)
(* base() are numbered.                                                    *)

defaults == Put(Put(EmptyDict, "ctx.member", "orm"), "zope_transactions", FALSE)

\* conf = defaults.copy(); conf.update(confdict)
Update(d, e) == [k \in (DOMAIN d) \cup (DOMAIN e) |-> IF Has(e, k) THEN e[k] ELSE d[k]]

\* The path of a class made by create_base(), and of a class that was not.
DottedName(module, name, n) == [module |-> module, name |-> name, n |-> n]
EmptyPath == DottedName("", "", 0)
BasePath(b) == DottedName("app", "Base", b)
PlainPath == DottedName("app", "Plain", 0)
\* issubclass(type(parse_dotted_path(path)), BaseMeta)
IsBaseMetaClass(path) == \E b \in BaseIds : path = BasePath(b)
ParsedBase(path) == CHOOSE b \in BaseIds : path = BasePath(b)

InitResult(err, message, bnd) == [err |-> err, message |-> message, bind |-> bnd]

init(bnd, confdict, db, ctx) ==
    LET conf == Update(defaults, confdict)
    IN  IF ~Has(conf, "base") THEN InitResult("KeyError", "base", bnd)
        ELSE IF conf["base"] = EmptyPath
        THEN InitResult("ConfigurationError", "No base class configured", bnd)
        ELSE IF ~IsBaseMetaClass(conf["base"])
        THEN InitResult("ConfigurationError",
                        "Configured base class not created via create_base()", bnd)
        ELSE LET Base == ParsedBase(conf["base"])
                 bound == [bnd EXCEPT ![Base] = db.engine]
                 ctx_member == IF conf["ctx.member"] \notin {"", "None"}
                               THEN conf["ctx.member"] ELSE None
             IN  IF bnd[Base] # NoEngine
                 THEN InitResult("ConfigurationError",
                                 "Base class already bound to another engine", bnd)
                 ELSE IF ctx # None /\ ctx_member # None /\ db.ctx_transaction
                 THEN InitResult("ConfigurationError",
                                 "score.sa.db is configured to manage transactions", bound)
                 ELSE InitResult(NoError, "", bound)

Engines == {"engine1", "engine2"}
Databases == [engine : Engines, ctx_transaction : BOOLEAN]
MemberDicts ==
    {IF member = Unset THEN EmptyDict ELSE Put(EmptyDict, "ctx.member", member) :
        member \in {Unset, "None", "db"}}
ConfDicts ==
    MemberDicts
        \cup {Put(m, "base", base) :
                 m \in MemberDicts,
                 base \in {EmptyPath, PlainPath} \cup {BasePath(b) : b \in BaseIds}}

InitModule ==
    /\ \E confdict \in ConfDicts, db \in Databases, ctx \in {None, "ctx"} :
           LET r == init(bind, confdict, db, ctx)
           IN  /\ bind' = r.bind
               /\ call' = [fn |-> "init", confdict |-> confdict, db |-> db, ctx |-> ctx,
                            err |-> r.err, message |-> r.message, before |-> bind]
    /\ UNCHANGED <<classes, tables, last, views, triggers, log, built, dbtables,
                   rows, cascade, ctx_sessions, heap, returned>>

-----------------------------------------------------------------------------
(* _init.py: ConfiguredSaOrmModule.get_session, on a finalized module.     *)
(* __ctx_sessions is a WeakKeyDictionary: the entry of a context goes with *)
(* the context object.  Contexts and sessions are numbered as they are     *)
(* made.                                                                   *)

MaxContexts == 3
MaxCalls == 2

SessionResult(err, session, sessions, h) ==
    [err |-> err, session |-> session, ctx_sessions |-> sessions, heap |-> h]

\* get_session without self.__ctx_sessions[ctx] = session.
get_session_unkept(sessions, h, ctx, connects) ==
    IF Has(sessions, ctx) THEN SessionResult(NoError, sessions[ctx], sessions, h)
    ELSE IF ~connects THEN SessionResult("OperationalError", 0, sessions, h)
    ELSE SessionResult(NoError, h.nsessions + 1, sessions,
                       [h EXCEPT !.nsessions = h.nsessions + 1])

\* `connects`: self.db.get_connection(ctx) returns a connection, or raises.
get_session(sessions, h, ctx, connects) ==
    IF Has(sessions, ctx) THEN SessionResult(NoError, sessions[ctx], sessions, h)
    ELSE IF ~connects THEN SessionResult("OperationalError", 0, sessions, h)
    ELSE LET session == h.nsessions + 1
         IN  SessionResult(NoError, session, Put(sessions, ctx, session),
                           [h EXCEPT !.nsessions = session])

\* A context object is made.
NewContext ==
    /\ heap.ncontexts < MaxContexts
    /\ LET ctx == heap.ncontexts + 1
       IN  /\ heap' = [heap EXCEPT !.contexts = heap.contexts \cup {ctx},
                                   !.ncontexts = ctx]
           /\ returned' = Put(returned, ctx, <<>>)
    /\ UNCHANGED <<classes, tables, last, views, triggers, log, built, dbtables,
                   rows, cascade, call, bind, ctx_sessions>>

\* A context object is released, and its entry with it.
DropContext ==
    /\ \E ctx \in heap.contexts :
           /\ heap' = [heap EXCEPT !.contexts = heap.contexts \ {ctx}]
           /\ ctx_sessions' = Without(ctx_sessions, ctx)
    /\ UNCHANGED <<classes, tables, last, views, triggers, log, built, dbtables,
                   rows, cascade, call, bind, returned>>

GetSession ==
    /\ \E ctx \in heap.contexts, connects \in BOOLEAN :
           /\ Len(returned[ctx]) < MaxCalls
           /\ LET r == get_session(ctx_sessions, heap, ctx, connects)
              IN  /\ ctx_sessions' = r.ctx_sessions
                  /\ heap' = r.heap
                  /\ returned' = IF r.err = NoError
                                  THEN [returned EXCEPT ![ctx] = Append(@, r.session)]
                                  ELSE returned
                  /\ call' = [fn |-> "get_session", ctx |-> ctx, err |-> r.err,
                               session |-> r.session]
    /\ UNCHANGED <<classes, tables, last, views, triggers, log, built, dbtables,
                   rows, cascade, bind>>

-----------------------------------------------------------------------------
(* The specifications.                                                     *)

\* The base classes exist, nothing is declared, and the database has the
\* views `stale`.
InitWith(stale) ==
    /\ classes = [b \in BaseIds |-> BaseClass(b)]
    /\ tables = [b \in BaseIds |-> EmptyDict]
    /\ last = Outcome("none", "", NoDecl, EmptyDict, 0)
    /\ views = stale
    /\ triggers = EmptyDict
    /\ log = <<>>
    /\ built = [result |-> "none", committed |-> FALSE, classes |-> 0]
    /\ dbtables = {}
    /\ rows = EmptyDict
    /\ cascade = NoCascade
    /\ call = NoCall
    /\ bind = [b \in BaseIds |-> NoEngine]
    /\ ctx_sessions = EmptyDict
    /\ heap = [contexts |-> {}, ncontexts |-> 0, nsessions |-> 0]
    /\ returned = EmptyDict

\* The database is empty.
Init == InitWith(EmptyDict)

\* The model tries a class statement while fewer than the bound are declared.
DeclareClass ==
    /\ Running /\ Cardinality(Nodes(classes)) < MaxNodes
    /\ \E d \in BuildDecls(classes) : Declare(d)
DeclareResolve ==
    /\ Running /\ Cardinality(Nodes(classes)) < MaxResolveNodes
    /\ \E d \in ResolveDecls(classes) : Declare(d)
DeclareStrategy ==
    /\ Running /\ Cardinality(Nodes(classes)) < MaxNodes
    /\ \E d \in StrategyDecls(classes) : Declare(d)
DeclareDiscriminator ==
    /\ Running /\ Cardinality(Nodes(classes)) < MaxNodes
    /\ \E d \in DiscriminatorDecls(classes) : Declare(d)

\* The class statements run when the application's modules are imported:
\* before an object is stored.
DeclareChain ==
    /\ Running /\ Cardinality(Nodes(classes)) < MaxNodes /\ rows = EmptyDict
    /\ \E d \in ChainDecls(classes) : Declare(d)
Insert == \E c \in Nodes(classes), i \in Ids : InsertObject(c, i)
Delete == \E t \in dbtables, i \in Ids : DeleteRow(t, i)

DeclareTransaction ==
    /\ Running /\ Cardinality(Nodes(classes)) < MaxNodes
    /\ \E d \in TransactionDecls(classes) : Declare(d)

DeclareRebuild ==
    /\ Running /\ Cardinality(Nodes(classes)) < MaxNodes
    /\ \E d \in RebuildDecls(classes) : Declare(d)

\* Class names in CamelCase: words of a capital and lower-case letters after
\* it, one after the other.
MaxNameLen == 4
NameChars == {"A", "B", "a", "b"}
CamelCaseNames ==
    {n \in UNION {[1..k -> NameChars] : k \in 1..MaxNameLen} : IsUpper(n[1])}

\* tbl2cls(cls2tbl(name)) for a class name.
RoundTrip ==
    /\ call = NoCall
    /\ \E n \in CamelCaseNames :
           call' = [fn |-> "tbl2cls", name |-> n, arg |-> cls2tbl(n),
                    result |-> tbl2cls(cls2tbl(n))]
    /\ UNCHANGED <<classes, tables, last, views, triggers, log, built, dbtables,
                   rows, cascade, modvars>>

DeclareMapper ==
    /\ Running /\ Cardinality(Nodes(classes)) < MaxMapperNodes
    /\ \E d \in MapperDecls(classes) : Declare(d)

DeclareIdentity ==
    /\ Running /\ Cardinality(Nodes(classes)) < MaxIdentityNodes
    /\ \E d \in IdentityDecls(classes) : Declare(d)

Next == DeclareClass \/ Create
Spec == Init /\ [][Next]_vars

\* Rows and their deletion over joined-table hierarchies.  The database
\* carries every statement out to its end.
NextCascade == DeclareChain \/ Create \/ Insert \/ Delete \/ CascadeStep
SpecCascade == Init /\ [][NextCascade]_vars /\ WF_vars(CascadeStep)

\* Build passes that can fail.
NextTransaction == DeclareTransaction \/ Create
SpecTransaction == Init /\ [][NextTransaction]_vars

\* Build passes that are repeated.
NextRebuild == DeclareRebuild \/ Create \/ Rebuild
SpecRebuild == Init /\ [][NextRebuild]_vars

\* The id column of a class.
NextIdentity == DeclareIdentity
SpecIdentity == Init /\ [][NextIdentity]_vars

\* The naming codec.
NextCodec == RoundTrip
SpecCodec == Init /\ [][NextCodec]_vars

\* The data loader's references.
NextLoader == ReplaceObject
SpecLoader == Init /\ [][NextLoader]_vars

\* The discriminator, named for the module or for sqlalchemy's mapper.
NextMapper == DeclareMapper
SpecMapper == Init /\ [][NextMapper]_vars

\* Objects by their ids.
NextQuery == ByIds
SpecQuery == Init /\ [][NextQuery]_vars

\* Initialisation of the module.
NextInit == InitModule
SpecInit == Init /\ [][NextInit]_vars

\* The sessions of contexts.
NextSession == NewContext \/ DropContext \/ GetSession
SpecSession == Init /\ [][NextSession]_vars

NextResolve == DeclareResolve
SpecResolve == Init /\ [][NextResolve]_vars

NextStrategy == DeclareStrategy
SpecStrategy == Init /\ [][NextStrategy]_vars

NextDiscriminator == DeclareDiscriminator
SpecDiscriminator == Init /\ [][NextDiscriminator]_vars

-----------------------------------------------------------------------------
(* What the properties speak about.                                        *)

Declared == last.result # "none"
DeclBases == Range(last.decl.bases)
DeclConfig == Get(last.decl.attrs, "__score_sa_orm__", EmptyDict)
ExplicitInheritance == Has(DeclConfig, "inheritance")

\* The bases of the class statement that are strict subtypes of `root`.
StrictSubtypes(root) == {b \in DeclBases : b # root /\ root \in Range(classes[b].mro)}
\* The base classes that the bases of the class statement descend from.
DeclRoots == {r \in BaseIds : \E b \in DeclBases : r \in Range(classes[b].mro)}
\* The class statement names one class that is not a base class: its parent.
DeclNodes == {b \in DeclBases : b \notin BaseIds}
IsChildDecl == Declared /\ Cardinality(DeclRoots) = 1 /\ Cardinality(DeclNodes) = 1
IsRootDecl == Declared /\ Cardinality(DeclRoots) = 1 /\ DeclNodes = {}
DeclParent == CHOOSE b \in DeclNodes : TRUE

\* The ancestor without a parent.
RECURSIVE RootOf(_, _)
RootOf(C, c) == IF Cfg(C, c).parent = NoParent THEN c ELSE RootOf(C, Cfg(C, c).parent)

\* The classes among the first n that are c or have c among their ancestors.
DescendantsOrSelf(C, c, n) ==
    {k \in Nodes(C) : k <= n /\ (k = c \/ c \in Range(Ancestors(C, k)))}

\* The nodes that the build pass of the module's base class is about.
ModuleNodes == {c \in Nodes(classes) : Cfg(classes, c).base = ModuleBase}
PassComplete == built.result = "ok" /\ built.classes = Len(classes)

\* The statements that the most recent pass executed for the class c.
VisitEntries(c) == SelectSeq(log, LAMBDA e : e.cls = c)
Visited == {log[i].cls : i \in DOMAIN log}
TriggerOps == {"DROP TRIGGER IF EXISTS", "CREATE TRIGGER"}
ViewOps == {"DROP VIEW IF EXISTS", "CREATE VIEW"}

CreateViewEntries == {i \in DOMAIN log : log[i].stmt.op = "CREATE VIEW"}

-----------------------------------------------------------------------------
(* C1: a class statement whose bases include two distinct strict subtypes  *)
(* of one base class fails with ConfigurationError; with exactly one such  *)
(* base the class gets it as parent, with none it gets parent None.        *)
C1_DiamondIsConfigurationError ==
    Declared =>
        /\ (\E root \in BaseIds : Cardinality(StrictSubtypes(root)) >= 2)
               => last.result = "ConfigurationError"
        /\ last.result = "ok" =>
               LET cands == StrictSubtypes(last.cfg.base)
               IN  /\ Cardinality(cands) = 1 => last.cfg.parent \in cands
                   /\ cands = {} => last.cfg.parent = NoParent

(* C6: a class statement whose configured bases report two or more base    *)
(* classes fails with ConfigurationError; when they report one, it is the  *)
(* base of the new class, so every class has the base of its parent.       *)
C6_MixedBasesIsConfigurationError ==
    /\ Declared /\ Cardinality(DeclRoots) >= 2 => last.result = "ConfigurationError"
    /\ last.result = "ok" /\ Cardinality(DeclRoots) = 1 => last.cfg.base \in DeclRoots
    /\ \A c \in Nodes(classes) :
           Cfg(classes, c).parent # NoParent
               => Cfg(classes, c).base = Cfg(classes, Cfg(classes, c).parent).base

(* C7: a parentless class with an explicit inheritance value other than    *)
(* 'joined-table', 'single-table' and None fails with ConfigurationError,  *)
(* and each of the three values is accepted.                               *)
C7_InvalidInheritanceIsConfigurationError ==
    IsRootDecl /\ ExplicitInheritance =>
        IF DeclConfig.inheritance \in {"joined-table", "single-table", None}
        THEN last.stage # "set_inheritance_config"
        ELSE last.result = "ConfigurationError"

(* C4: every class with a parent has the strategy of its parent; a         *)
(* parentless class that declares no strategy has 'joined-table'; a child  *)
(* that declares a strategy other than its parent's fails with             *)
(* ConfigurationError.                                                     *)
C4_StrategyMatchesParent ==
    /\ \A c \in Nodes(classes) :
           Cfg(classes, c).parent # NoParent
               => Cfg(classes, c).inheritance
                      = Cfg(classes, Cfg(classes, c).parent).inheritance
    /\ IsRootDecl /\ ~ExplicitInheritance /\ last.result = "ok"
           => Cfg(classes, last.cls).inheritance = "joined-table"
    /\ IsChildDecl /\ ExplicitInheritance
         /\ DeclConfig.inheritance # Cfg(classes, DeclParent).inheritance
           => last.result = "ConfigurationError"

\* A child declared 'single-table' or 'joined-table' under a parent of the
\* other strategy has been rejected.
C4_Witness ==
    /\ IsChildDecl /\ ExplicitInheritance
    /\ DeclConfig.inheritance \in {"joined-table", "single-table"}
    /\ Cfg(classes, DeclParent).inheritance \in {"joined-table", "single-table"}
    /\ DeclConfig.inheritance # Cfg(classes, DeclParent).inheritance
    /\ last.result = "ConfigurationError"

(* C5, as stated: a child that declares no strategy resolves successfully  *)
(* with the strategy of its parent, whatever that strategy is.             *)
C5_ChildAlwaysInherits ==
    IsChildDecl /\ ~ExplicitInheritance =>
        /\ last.result = "ok"
        /\ Cfg(classes, last.cls).inheritance = Cfg(classes, DeclParent).inheritance

(* C5, amended: a child that declares no strategy resolves its strategy to *)
(* that of its parent when the parent's is 'joined-table' or               *)
(* 'single-table'; under a parent whose strategy is None the class         *)
(* statement fails with ConfigurationError.                                *)
C5_ChildInheritsPolymorphicParent ==
    IsChildDecl /\ ~ExplicitInheritance =>
        IF Cfg(classes, DeclParent).inheritance \in {"joined-table", "single-table"}
        THEN /\ last.stage \notin {"set_base_config", "set_parent_config",
                                   "set_inheritance_config"}
             /\ last.cfg.inheritance = Cfg(classes, DeclParent).inheritance
        ELSE /\ last.result = "ConfigurationError"
             /\ last.stage = "set_inheritance_config"

\* A child without a strategy of its own has taken 'single-table' from its
\* parent.
C5_Witness ==
    /\ IsChildDecl /\ ~ExplicitInheritance /\ last.result = "ok"
    /\ Cfg(classes, DeclParent).inheritance = "single-table"
    /\ Cfg(classes, last.cls).inheritance = "single-table"

(* C3: the type_column of every class is the type_column of the parentless *)
(* ancestor of its hierarchy, so that the view of a single-table class     *)
(* finds the column that this ancestor carries.                            *)
C3_TypeColumnOfRoot ==
    \A c \in Nodes(classes) :
        /\ Cfg(classes, c).type_column = Cfg(classes, RootOf(classes, c)).type_column
        /\ Cfg(classes, c).inheritance = "single-table"
               => ColumnAttr(classes, c, Cfg(classes, c).type_column).found

(* C8: two distinct classes of one hierarchy never have the same           *)
(* type_name, declared or derived from the class names.                    *)
C8_TypeNamesDistinct ==
    \A c1, c2 \in Nodes(classes) :
        c1 # c2 /\ RootOf(classes, c1) = RootOf(classes, c2)
            => Cfg(classes, c1).type_name # Cfg(classes, c2).type_name

(* C2: after a complete build pass every class whose strategy is not None  *)
(* has a view of its own: no two classes use one view name, and the view   *)
(* under the name of a class is the one generated for that class.          *)
C2_EveryNodeHasItsView ==
    PassComplete =>
        \A c \in ModuleNodes :
            Cfg(classes, c).inheritance # None =>
                /\ \A c2 \in ModuleNodes \ {c} :
                       Cfg(classes, c2).inheritance # None
                           => ViewName(classes, c2) # ViewName(classes, c)
                /\ Has(views, ViewName(classes, c))
                /\ views[ViewName(classes, c)]
                       = generate_create_inheritance_view_statement(
                             classes, tables, c).stmt.select

(* C9: the view statement generated for a single-table class filters the   *)
(* type column on exactly the type names of the class and of its           *)
(* descendants declared when the build pass ran: a class declared later is *)
(* not in the statement, and is in the statement of the next pass.         *)
C9_SingleTableFilter ==
    \A i \in CreateViewEntries :
        LET c == log[i].cls
            sel == log[i].stmt.select
        IN  Cfg(classes, c).inheritance = "single-table" =>
                /\ Len(sel.where) = 1
                /\ sel.where[1].column.name = Cfg(classes, c).type_column
                /\ Range(sel.where[1].in)
                       = {Cfg(classes, k).type_name :
                              k \in DescendantsOrSelf(classes, c, built.classes)}

\* The statement of a single-table class names a descendant, and a further
\* descendant declared after the pass is not in it.
C9_Witness ==
    \E i \in CreateViewEntries :
        LET c == log[i].cls
            sel == log[i].stmt.select
        IN  /\ Cfg(classes, c).inheritance = "single-table"
            /\ Cardinality(Range(sel.where[1].in)) >= 2
            /\ \E k \in Nodes(classes) :
                   /\ k > built.classes
                   /\ c \in Range(Ancestors(classes, k))
                   /\ Cfg(classes, k).type_name \notin Range(sel.where[1].in)

(* C10: the view of a joined-table class selects every column name of its  *)
(* own table and of its ancestors' tables exactly once, from the table     *)
(* nearest to the class, and joins the class's table with the table of     *)
(* every ancestor on id equality.                                          *)
NearestTable(C, T, c, name) ==
    LET chain == <<c>> \o Ancestors(C, c)
        first == CHOOSE i \in DOMAIN chain :
                    /\ name \in Range(TableColumns(C, T, chain[i]))
                    /\ \A j \in 1..(i - 1) : name \notin Range(TableColumns(C, T, chain[j]))
    IN  TableOf(C, chain[first])

C10_JoinedViewColumns ==
    \A i \in CreateViewEntries :
        LET c == log[i].cls
            sel == log[i].stmt.select
            ancestors == Ancestors(classes, c)
            names == UNION {Range(TableColumns(classes, tables, k)) :
                               k \in Range(ancestors) \cup {c}}
        IN  Cfg(classes, c).inheritance = "joined-table" =>
                /\ {sel.columns[j].name : j \in DOMAIN sel.columns} = names
                /\ \A j, k \in DOMAIN sel.columns :
                       j # k => sel.columns[j].name # sel.columns[k].name
                /\ \A j \in DOMAIN sel.columns :
                       sel.columns[j].table
                           = NearestTable(classes, tables, c, sel.columns[j].name)
                /\ sel.from = TableOf(classes, c)
                /\ Len(sel.joins) = Len(ancestors)
                /\ {sel.joins[j].table : j \in DOMAIN sel.joins}
                       = {TableOf(classes, a) : a \in Range(ancestors)}
                /\ \A j \in DOMAIN sel.joins :
                       sel.joins[j].on
                           = <<[table |-> sel.joins[j].table, name |-> "id"],
                               [table |-> TableOf(classes, c), name |-> "id"]>>
                /\ sel.where = <<>>

\* The view of a class with two ancestors whose own table and whose root's
\* table both have a column "name".
C10_Witness ==
    \E i \in CreateViewEntries :
        LET c == log[i].cls
        IN  /\ Cfg(classes, c).inheritance = "joined-table"
            /\ Len(Ancestors(classes, c)) = 2
            /\ "name" \in Range(TableColumns(classes, tables, c))
            /\ "name" \in Range(TableColumns(classes, tables, RootOf(classes, c)))

(* C11: after a build pass over a hierarchy of joined-table classes, a     *)
(* DELETE of one row of a class's table leads to the end of the cascade    *)
(* with the row of that id gone from the table and from the table of every *)
(* ancestor up to the root, one row a table, and no row of another id gone.*)
CascadeRemoved ==
    /\ \A c \in ModuleNodes :
           TableOf(classes, c) = cascade.table
               => \A t \in TableChain(classes, c) :
                      /\ cascade.id \notin RowsOf(rows, t)
                      /\ RowsOf(cascade.before, t) \ RowsOf(rows, t) \subseteq {cascade.id}
    /\ \A t \in dbtables :
           /\ RowsOf(rows, t) \subseteq RowsOf(cascade.before, t)
           /\ RowsOf(cascade.before, t) \ RowsOf(rows, t) \subseteq {cascade.id}

C11_CascadeReachesRoot ==
    (cascade.pending # {} /\ PassComplete) ~> (cascade.pending = {} /\ CascadeRemoved)

\* The row of a class with two ancestors was deleted: it is gone from the
\* three tables, which had it, and the rows of another id are there.
C11_Witness ==
    /\ PassComplete /\ cascade.pending = {} /\ cascade.table # NoTable
    /\ \E c \in ModuleNodes :
           /\ TableOf(classes, c) = cascade.table
           /\ Len(Ancestors(classes, c)) = 2
           /\ \A t \in TableChain(classes, c) :
                  /\ cascade.id \in RowsOf(cascade.before, t)
                  /\ cascade.id \notin RowsOf(rows, t)
                  /\ \E j \in Ids \ {cascade.id} : j \in RowsOf(rows, t)

(* C12: for every class that the build pass visits, the first statement is *)
(* the DROP TRIGGER of the trigger of the class's table; one CREATE        *)
(* TRIGGER follows exactly when the class has a parent, and it is an       *)
(* AFTER DELETE trigger on the class's table that deletes by id from the   *)
(* table of the class's parent, not of a more distant ancestor.            *)
C12_TriggerStatements ==
    \A c \in Visited :
        LET all == VisitEntries(c)
            trg == SelectSeq(all, LAMBDA e : e.stmt.op \in TriggerOps)
            parent == Cfg(classes, c).parent
        IN  /\ all[1].stmt.op = "DROP TRIGGER IF EXISTS"
            /\ all[1].stmt.table = TableOf(classes, c)
            /\ Len(trg) = IF parent = NoParent THEN 1 ELSE 2
            /\ parent # NoParent =>
                   /\ all[2] = trg[2]
                   /\ trg[2].stmt.op = "CREATE TRIGGER"
                   /\ trg[2].stmt.name = all[1].stmt.name
                   /\ trg[2].stmt.event = "AFTER DELETE"
                   /\ trg[2].stmt.table = TableOf(classes, c)
                   /\ trg[2].stmt.parent = TableOf(classes, parent)
                   /\ trg[2].stmt.where = <<"id", "OLD.id">>

\* The pass has visited a joined-table class with two ancestors: its
\* trigger deletes from the table of its parent, which is not the root's.
C12_Witness ==
    \E c \in Visited :
        /\ Len(Ancestors(classes, c)) = 2
        /\ TableOf(classes, RootOf(classes, c)) # TableOf(classes, Cfg(classes, c).parent)
        /\ \E i \in DOMAIN log :
               /\ log[i].cls = c /\ log[i].stmt.op = "CREATE TRIGGER"
               /\ log[i].stmt.parent = TableOf(classes, Cfg(classes, c).parent)

(* C13: for every class that the build pass visits, a DROP VIEW IF EXISTS  *)
(* of the class's view name is executed, before any CREATE VIEW of the     *)
(* class; the CREATE VIEW is executed exactly when the class's strategy is *)
(* not None, and after the pass no view has the name of a class whose      *)
(* strategy is None.                                                       *)
C13_ViewStatements ==
    /\ \A c \in Visited :
           LET vw == SelectSeq(VisitEntries(c), LAMBDA e : e.stmt.op \in ViewOps)
           IN  /\ Len(vw) >= 1
               /\ vw[1].stmt.op = "DROP VIEW IF EXISTS"
               /\ vw[1].stmt.name = ViewName(classes, c)
               /\ Len(vw) = IF Cfg(classes, c).inheritance = None THEN 1 ELSE 2
               /\ Len(vw) = 2 =>
                      /\ vw[2].stmt.op = "CREATE VIEW"
                      /\ vw[2].stmt.name = ViewName(classes, c)
    /\ built.result # "none" =>
           \A c \in ModuleNodes :
               c <= built.classes /\ Cfg(classes, c).inheritance = None
                   => ~Has(views, ViewName(classes, c))

(* C14: a build pass over the declared classes ends normally and has       *)
(* visited every class declared by then once, the statements of a class in *)
(* one piece and after those of its parent.                                *)
C14_EveryNodeOnceParentsFirst ==
    built.result # "none" =>
        LET declared == {c \in ModuleNodes : c <= built.classes}
            first(c) == CHOOSE i \in DOMAIN log :
                           log[i].cls = c /\ \A j \in 1..(i - 1) : log[j].cls # c
            final(c) == CHOOSE i \in DOMAIN log :
                           log[i].cls = c /\ \A j \in (i + 1)..Len(log) : log[j].cls # c
        IN  /\ built.result = "ok"
            /\ Visited = declared
            /\ \A c \in declared :
                   /\ \A i \in first(c)..final(c) : log[i].cls = c
                   /\ Cfg(classes, c).parent # NoParent
                          => final(Cfg(classes, c).parent) < first(c)

(* C15: a build pass commits when, and only when, every statement has been *)
(* executed; a pass that fails commits nothing and leaves the tables, the  *)
(* triggers and the views of the database as they were before it.          *)
C15_FailedPassLeavesSchema ==
    [][Create =>
          IF built'.result = "ok"
          THEN built'.committed
          ELSE /\ ~built'.committed
               /\ views' = views /\ triggers' = triggers /\ dbtables' = dbtables]_vars

(* C16: a build pass that is run again over the hierarchy of the pass      *)
(* before it executes the statements of that pass, in the same order, and  *)
(* leaves the views and the triggers that that pass left, with the same    *)
(* definitions; it ends as that pass ended, and never with the error of a  *)
(* view or a trigger that exists already.                                  *)
C16_SecondPassSame ==
    (call.fn = "create" /\ call.before.classes = built.classes) =>
        /\ log = call.before.log
        /\ views = call.before.views
        /\ triggers = call.before.triggers
        /\ built.result = call.before.result
        /\ built.result # "OperationalError"
C16_Witness ==
    /\ call.fn = "create" /\ call.before.classes = built.classes
    /\ built.result = "ok" /\ built.classes = Len(classes)
    /\ \E c, d \in Visited :
           /\ Cfg(classes, d).parent = c
           /\ Has(views, ViewName(classes, c)) /\ Has(views, ViewName(classes, d))
           /\ Has(triggers, TriggerName(TableOf(classes, d)))
           /\ Has(call.before.views, ViewName(classes, d))

(* C17: a class that has been declared, is not a single-table child and    *)
(* has neither an id column nor a primary key for the mapper in its body   *)
(* has an id column made for it; the column has a foreign key exactly when *)
(* the class has a parent, to the id of the parent's table, with ON DELETE *)
(* and ON UPDATE CASCADE.  A single-table child has no __tablename__ and   *)
(* no id column of its own, and its table is its parent's.                 *)
C17_IdColumn ==
    last.result = "ok" =>
        LET c == last.cls
            cfg == Cfg(classes, c)
            d == last.decl
        IN  IF IsSingleTableChild(cfg)
            THEN /\ ~Has(classes[c].dict, "__tablename__")
                 /\ ("id" \in Range(classes[c].columns)) = ("id" \in Range(d.attrs.columns))
                 /\ TableOf(classes, c) = TableOf(classes, cfg.parent)
            ELSE ("id" \notin Range(d.attrs.columns) /\ ~Has(MapperArgs(d), "primary_key")) =>
                 /\ "id" \in Range(classes[c].columns)
                 /\ Has(classes[c].dict, "__tablename__")
                 /\ tables[cfg.base][TableOf(classes, c)].idfk =
                        IF cfg.parent = NoParent THEN NoTable
                        ELSE ForeignKey(TableOf(classes, cfg.parent), "CASCADE", "CASCADE")
C17_Witness ==
    /\ last.result = "ok"
    /\ ~IsSingleTableChild(Cfg(classes, last.cls))
    /\ Cfg(classes, last.cls).parent # NoParent
    /\ "id" \notin Range(last.decl.attrs.columns)
    /\ ~Has(MapperArgs(last.decl), "primary_key")
    /\ tables[ModuleBase][TableOf(classes, last.cls)].idfk.table =
           GetAttr(classes, Cfg(classes, last.cls).parent, "__tablename__")

(* C18: the class name that tbl2cls makes of the table name that cls2tbl   *)
(* made of a CamelCase class name is that class name.                      *)
C18_RoundTrip == call.fn = "tbl2cls" => call.result = call.name

\* The loaded objects with the id `i` of the class c and its subclasses.
LoadedAs(objects, c, i) ==
    {objects[k].byid[i] :
        k \in {k \in DOMAIN objects :
                  /\ IsSubclass(LoaderClasses,
                                parse_dotted_path(LoaderClasses, objects[k].classname), c)
                  /\ i \in DOMAIN objects[k].byid}}

(* C19: _replace_object returns, for an id, a loaded object with that id   *)
(* of the target class or of one of its subclasses, and for a list the     *)
(* list of these; when an id has no such object among the loaded objects,  *)
(* it raises DataLoaderException and no other exception.                   *)
C19_ReferenceResolved ==
    call.fn = "_replace_object" =>
        LET v == call.value
            ids == IF v.kind = "list" THEN [j \in DOMAIN v.items |-> v.items[j].id]
                   ELSE <<v.id>>
        IN  IF \A j \in DOMAIN ids : LoadedAs(call.objects, call.cls, ids[j]) # {}
            THEN /\ call.result.err = NoError
                 /\ IF v.kind = "list"
                    THEN /\ DOMAIN call.result.value = DOMAIN ids
                         /\ \A j \in DOMAIN ids :
                                call.result.value[j]
                                    \in LoadedAs(call.objects, call.cls, ids[j])
                    ELSE call.result.value \in LoadedAs(call.objects, call.cls, v.id)
            ELSE call.result.err = "DataLoaderException"

(* C20: a class statement whose base, parent and strategy resolve raises   *)
(* the ConfigurationError of set_type_name_config or set_type_column_config*)
(* exactly when its body has type_name as well as polymorphic_identity, or *)
(* type_column as well as polymorphic_on; otherwise the class is made, and *)
(* a polymorphic_identity or polymorphic_on of the body is its type_name   *)
(* or type_column.                                                         *)
C20_ConflictingDiscriminator ==
    (Declared /\ last.stage \notin {"set_base_config", "set_parent_config",
                                     "set_inheritance_config"}) =>
        LET ma == MapperArgs(last.decl)
            both == \/ Has(DeclConfig, "type_name") /\ Has(ma, "polymorphic_identity")
                    \/ Has(DeclConfig, "type_column") /\ Has(ma, "polymorphic_on")
        IN  IF both
            THEN /\ last.result = "ConfigurationError"
                 /\ last.stage \in {"set_type_name_config", "set_type_column_config"}
            ELSE /\ last.result = "ok"
                 /\ Has(ma, "polymorphic_identity")
                        => last.cfg.type_name = ma.polymorphic_identity
                 /\ Has(ma, "polymorphic_on")
                        => last.cfg.type_column = ma.polymorphic_on

(* C23: every CREATE TRIGGER statement that a build pass executes, and     *)
(* every trigger that the database has after it, names in its DELETE a     *)
(* table other than the table it is defined on.                            *)
C23_NoTriggerOnItsOwnTable ==
    /\ \A i \in DOMAIN log :
           log[i].stmt.op = "CREATE TRIGGER" => log[i].stmt.table # log[i].stmt.parent
    /\ \A n \in DOMAIN triggers : triggers[n].table # triggers[n].parent

\* One lookup for the whole list: the objects of the ids that exist, in the
\* order of the list.
Unchunked(db, ids) ==
    LET found == SelectSeq(ids, LAMBDA i : i \in db)
    IN  [k \in DOMAIN found |-> Entity(found[k])]

(* C22: by_ids with ignore_missing true raises nothing and yields, for a   *)
(* list of any length, the objects of the ids of the list that exist, in   *)
(* the order of the list: what one lookup of the whole list yields.        *)
C22_ByIdsInOrder ==
    (call.fn = "by_ids" /\ call.ignore_missing) =>
        /\ call.result.err = NoError
        /\ call.result.yielded = Unchunked(call.db, call.ids)
C22_Witness ==
    /\ call.fn = "by_ids" /\ call.ignore_missing
    /\ Len(call.ids) > chunk_size
    /\ call.ids[chunk_size + 1] \in call.db
    /\ \E k \in DOMAIN call.ids : call.ids[k] \notin call.db
    /\ call.result.err = NoError
    /\ Len(call.result.yielded) > 0 /\ Len(call.result.yielded) < Len(call.ids)

(* C25: by_ids with ignore_missing false raises IdsNotFound exactly when   *)
(* an id of the list does not exist, with the missing ids; otherwise it    *)
(* yields one object for each element of the list, in order, also when an  *)
(* id is in the list more than once.                                       *)
C25_IdsNotFoundIffMissing ==
    (call.fn = "by_ids" /\ ~call.ignore_missing) =>
        LET missing == SelectSeq(call.ids, LAMBDA i : i \notin call.db)
        IN  IF missing # <<>>
            THEN /\ call.result.err = "IdsNotFound"
                 /\ call.result.args = missing
            ELSE /\ call.result.err = NoError
                 /\ call.result.yielded = [k \in DOMAIN call.ids |-> Entity(call.ids[k])]

(* C24: a call of init that raises ConfigurationError leaves the engine    *)
(* that every base class is bound to as it was before the call.            *)
C24_FailedInitLeavesBinding ==
    (call.fn = "init" /\ call.err = "ConfigurationError") => bind = call.before

(* C21: the sessions that get_session has returned for one context object  *)
(* are one and the same session, and no session has been returned for two  *)
(* context objects.                                                        *)
C21_OneSessionPerContext ==
    /\ \A ctx \in DOMAIN returned :
           \A i, j \in DOMAIN returned[ctx] : returned[ctx][i] = returned[ctx][j]
    /\ \A c, d \in DOMAIN returned :
           c # d => Range(returned[c]) \cap Range(returned[d]) = {}
C21_Witness ==
    \E c, d \in DOMAIN returned :
        /\ c # d
        /\ Len(returned[c]) = MaxCalls /\ Len(returned[d]) = MaxCalls
        /\ c \in heap.contexts /\ d \in heap.contexts

=============================================================================
